---- MODULE Spec2Model ----
(***************************************************************************)
(* Assessment session lifecycle of backend/app/api/routes/tests.py: the    *)
(* Test row (backend/app/models/test.py), the candidate and administrator  *)
(* handlers that mutate it, and the in-memory generation lock around       *)
(* create_test.                                                            *)
(*                                                                         *)
(* Time is in whole seconds.  Violation scores are kept doubled            *)
(* (violation_score2 = 2 * violation_score) so that the weights 0.5 stay   *)
(* integers; every comparison against a threshold is doubled on both sides.*)
(***************************************************************************)
EXTENDS Integers, Sequences, FiniteSets, TLC

VARIABLES
    tests,      \* the tests table: sequence of Test rows, index = Test.id
    now,        \* datetime.utcnow(), seconds
    resp,       \* the response of the last handler that ran
    obs,        \* observer of the anti-cheat responses (history of resp)
    inflight,   \* log_anti_cheat_event requests between their read and commit
    locks,      \* _test_generation_locks
    mutex,      \* _lock (asyncio.Lock): the call holding it, or NoCall
    pc,         \* position of each create_test call
    cand,       \* candidate_id of each create_test call
    outcome     \* HTTP outcome of each create_test call (None while running)

vars == <<tests, now, resp, obs, inflight, locks, mutex, pc, cand, outcome>>
sessionVars == <<tests, now, resp, obs, inflight>>
genVars == <<locks, mutex, pc, cand, outcome>>

None == 0 - 1
NoCall == 0

\* ---------------------------------------------------------------- bounds
MaxTime == 4400         \* the clock stops advancing here
MaxBreaks == 2          \* breaks started per session
MaxEvents == 2          \* audit-log length in the lifecycle specification
MaxEventsScore == 4     \* audit-log length in the integrity specification
NCalls == 3             \* create_test calls in the generation specification
MaxBreakClock == 1500   \* the clock's end in the break-ledger specification
NRequests == 2          \* concurrent log_anti_cheat_event requests
MaxHours == 10          \* longest test duration in the break-budget specification
MaxPlans == 2           \* sessions built in the break-budget specification

TickSteps == {700, 3700}
BreakSteps == {200, 500}
GuardSteps == {3700}
GuardEvents == {"tab_switch", "paste_attempt", "dev_tools_open"}
Durations == {1}
ClientStamps == {"cA"}
SpoofStamps == {"cA", "cB"}  \* client timestamps of the two compared runs
Candidates == {7, 9}    \* candidate ids requested
Existing == {7}         \* candidate ids with a Candidate row
Calls == 1..NCalls
Requests == 1..NRequests
Hours == 0..MaxHours

\* ------------------------------------------------------------ TestStatus
PENDING == "pending"
IN_PROGRESS == "in_progress"
ON_BREAK == "on_break"
COMPLETED == "completed"
EXPIRED == "expired"

Min(a, b) == IF a < b THEN a ELSE b
Max(a, b) == IF a > b THEN a ELSE b

\* Python's `x or y` on an integer column
OrElse(x, y) == IF x = 0 \/ x = None THEN y ELSE x

\* ------------------------------------------------- calculate_break_time
calculate_break_time_steep(duration_hours) ==
    IF duration_hours >= 8 THEN <<60 * 60, 20 * 60>>
    ELSE IF duration_hours >= 4
         THEN <<1800 + (duration_hours - 4) * 900, 900 + (duration_hours - 4) * 75>>
    ELSE IF duration_hours >= 2
         THEN <<900 + (duration_hours - 2) * 450, 15 * 60>>
    ELSE <<10 * 60, 10 * 60>>

\* (total_break_seconds, max_single_break_seconds); the float arithmetic of
\* the source is exact on integer hours: 30 + (d-4)*7.5 minutes = 1800 +
\* (d-4)*450 seconds, 15 + (d-4)*1.25 minutes = 900 + (d-4)*75 seconds.
calculate_break_time(duration_hours) ==
    IF duration_hours >= 8 THEN <<60 * 60, 20 * 60>>
    ELSE IF duration_hours >= 4
         THEN <<1800 + (duration_hours - 4) * 450, 900 + (duration_hours - 4) * 75>>
    ELSE IF duration_hours >= 2
         THEN <<900 + (duration_hours - 2) * 450, 15 * 60>>
    ELSE <<10 * 60, 10 * 60>>

\* The Test row as create_test builds it (column defaults of models/test.py)
NewTest(candidate_id, duration_hours) ==
    [ candidate_id |-> candidate_id,
      status |-> PENDING,
      start_time |-> None,
      end_time |-> None,
      duration_hours |-> duration_hours,
      current_section |-> "none",
      total_break_time_seconds |-> calculate_break_time(duration_hours)[1],
      used_break_time_seconds |-> 0,
      break_count |-> 0,
      current_break_start |-> None,
      break_history |-> <<>>,
      tab_switch_count |-> 0,
      tab_switch_timestamps |-> <<>>,
      paste_attempt_count |-> 0,
      copy_attempt_count |-> 0,
      right_click_count |-> 0,
      dev_tools_open_count |-> 0,
      focus_loss_count |-> 0,
      violation_events |-> <<>>,
      warning_count |-> 0,
      is_disqualified |-> FALSE,
      disqualified_at |-> None,
      disqualification_reason |-> None ]

\* A handler's response: HTTP code plus the payload fields the claims read;
\* snapshot is <<row>> when the handler returns the Test itself.
Resp(code) ==
    [ code |-> code, success |-> (code = 200),
      status |-> "none", time_remaining_seconds |-> None,
      violation_score2 |-> None, is_disqualified |-> FALSE,
      snapshot |-> <<>> ]

Store(i, row) == tests' = [tests EXCEPT ![i] = row]

Last(s) == s[Len(s)]

CloseLastBreakNoDuration(history, ended, duration) ==
    IF history # <<>> /\ Last(history).end = None
    THEN [history EXCEPT ![Len(history)] = [Last(history) EXCEPT !.end = ended]]
    ELSE history

\* history[-1]["end"] = end; history[-1]["duration_seconds"] = duration,
\* done only `if history and history[-1].get("end") is None`
CloseLastBreak(history, ended, duration) ==
    IF history # <<>> /\ Last(history).end = None
    THEN [history EXCEPT ![Len(history)] =
              [Last(history) EXCEPT !.end = ended, !.duration_seconds = duration]]
    ELSE history

\* start_time + timedelta(hours=duration_hours) + timedelta(seconds=used)
EffectiveEnd(test) ==
    test.start_time + test.duration_hours * 3600 + test.used_break_time_seconds

IsActive(test) ==
    test.status \in {IN_PROGRESS, ON_BREAK} /\ test.start_time # None

\* --------------------------------------------------------------- start_test
start_test(i) ==
    LET test == tests[i] IN
    IF test.status # PENDING
    THEN /\ resp' = Resp(400)
         /\ UNCHANGED <<tests, now>>
    ELSE LET row == [test EXCEPT !.status = IN_PROGRESS,
                                 !.start_time = now,
                                 !.current_section = "brain_teaser"]
         IN /\ Store(i, row)
            /\ resp' = [Resp(200) EXCEPT !.status = row.status,
                                                  !.snapshot = <<row>>]
            /\ UNCHANGED now

\* ------------------------------------------------------------ complete_test
\* The open break is closed with the elapsed time as it is (no cap).
CompleteBreakDuration(test) == now - test.current_break_start

complete_test_again(i) ==
    LET test == tests[i]
        closing == test.status = ON_BREAK /\ test.current_break_start # None
        break_duration == CompleteBreakDuration(test)
        closed == IF closing
                  THEN [test EXCEPT
                          !.used_break_time_seconds = @ + break_duration,
                          !.break_history = CloseLastBreak(@, now, break_duration),
                          !.current_break_start = None]
                  ELSE test
        row == [closed EXCEPT !.status = COMPLETED, !.end_time = now]
    IN /\ Store(i, row)
       /\ resp' = [Resp(200) EXCEPT !.status = row.status, !.snapshot = <<row>>]
       /\ UNCHANGED now

complete_test(i) ==
    LET test == tests[i] IN
    IF test.status = COMPLETED
    THEN /\ resp' = [Resp(200) EXCEPT !.status = test.status,
                                                  !.snapshot = <<test>>]
         /\ UNCHANGED <<tests, now>>
    ELSE LET closing == test.status = ON_BREAK /\ test.current_break_start # None
             break_duration == CompleteBreakDuration(test)
             closed == IF closing
                       THEN [test EXCEPT
                               !.used_break_time_seconds = @ + break_duration,
                               !.break_history =
                                   CloseLastBreak(@, now, break_duration),
                               !.current_break_start = None]
                       ELSE test
             row == [closed EXCEPT !.status = COMPLETED, !.end_time = now]
         IN /\ Store(i, row)
            /\ resp' = [Resp(200) EXCEPT !.status = row.status,
                                                     !.snapshot = <<row>>]
            /\ UNCHANGED now

\* -------------------------------------------------------- get_test_by_token
ShouldExpireOnBreak(test) ==
    /\ IsActive(test)
    /\ now > EffectiveEnd(test)

ShouldExpire(test) ==
    /\ IsActive(test)
    /\ now > EffectiveEnd(test)
    /\ test.status # ON_BREAK

TimeRemainingNoBreaks(test) ==
    IF IsActive(test)
    THEN Max(0, test.start_time + test.duration_hours * 3600 - now)
    ELSE None

TimeRemaining(test) ==
    IF IsActive(test) THEN Max(0, EffectiveEnd(test) - now) ELSE None

get_test_by_token(i) ==
    LET test == tests[i]
        row == IF ShouldExpire(test) THEN [test EXCEPT !.status = EXPIRED]
               ELSE test
    IN /\ Store(i, row)
       /\ resp' = [Resp(200) EXCEPT
                     !.status = row.status,
                     !.time_remaining_seconds = TimeRemaining(row),
                     !.is_disqualified = row.is_disqualified,
                     !.snapshot = <<row>>]
       /\ UNCHANGED now

\* -------------------------------------------------------------- start_break
TotalAllowed(test) ==
    OrElse(test.total_break_time_seconds,
           calculate_break_time(test.duration_hours)[1])

start_break_no_entry(i) ==
    LET test == tests[i]
        remaining == TotalAllowed(test) - test.used_break_time_seconds
    IN
    IF test.status # IN_PROGRESS \/ remaining <= 0
    THEN /\ resp' = Resp(400)
         /\ UNCHANGED <<tests, now>>
    ELSE LET row == [test EXCEPT
                       !.status = ON_BREAK,
                       !.current_break_start = now,
                       !.break_count = @ + 1]
         IN /\ Store(i, row)
            /\ resp' = Resp(200)
            /\ UNCHANGED now

start_break_unbudgeted(i) ==
    LET test == tests[i] IN
    IF test.status # IN_PROGRESS
    THEN /\ resp' = Resp(400)
         /\ UNCHANGED <<tests, now>>
    ELSE LET row == [test EXCEPT
                       !.status = ON_BREAK,
                       !.current_break_start = now,
                       !.break_count = @ + 1,
                       !.break_history = Append(@,
                           [start |-> now, end |-> None, duration_seconds |-> 0])]
         IN /\ Store(i, row)
            /\ resp' = Resp(200)
            /\ UNCHANGED now

start_break(i) ==
    LET test == tests[i]
        remaining == TotalAllowed(test) - test.used_break_time_seconds
    IN
    IF test.status # IN_PROGRESS \/ remaining <= 0
    THEN /\ resp' = Resp(400)
         /\ UNCHANGED <<tests, now>>
    ELSE LET row == [test EXCEPT
                       !.status = ON_BREAK,
                       !.current_break_start = now,
                       !.break_count = @ + 1,
                       !.break_history = Append(@,
                           [start |-> now, end |-> None, duration_seconds |-> 0])]
         IN /\ Store(i, row)
            /\ resp' = Resp(200)
            /\ UNCHANGED now

\* ---------------------------------------------------------------- end_break
ActualDurationUncapped(break_duration, remaining_before) == break_duration

\* actual_duration = min(break_duration, remaining_before)
ActualDuration(break_duration, remaining_before) ==
    Min(break_duration, remaining_before)

end_break_expires(i) ==
    LET test == tests[i] IN
    IF test.status # ON_BREAK \/ test.current_break_start = None
    THEN /\ resp' = Resp(400)
         /\ UNCHANGED <<tests, now>>
    ELSE LET break_duration == now - test.current_break_start
             used_before == test.used_break_time_seconds
             remaining_before == TotalAllowed(test) - used_before
             actual_duration == ActualDuration(break_duration, remaining_before)
             row == [test EXCEPT
                       !.used_break_time_seconds = used_before + actual_duration,
                       !.current_break_start = None,
                       !.status = IN_PROGRESS,
                       !.break_history = CloseLastBreak(@, now, actual_duration)]
         IN /\ Store(i, IF now > EffectiveEnd(row)
                        THEN [row EXCEPT !.status = EXPIRED]
                        ELSE row)
            /\ resp' = Resp(200)
            /\ UNCHANGED now

end_break(i) ==
    LET test == tests[i] IN
    IF test.status # ON_BREAK \/ test.current_break_start = None
    THEN /\ resp' = Resp(400)
         /\ UNCHANGED <<tests, now>>
    ELSE LET break_duration == now - test.current_break_start
             used_before == test.used_break_time_seconds
             remaining_before == TotalAllowed(test) - used_before
             actual_duration == ActualDuration(break_duration, remaining_before)
             row == [test EXCEPT
                       !.used_break_time_seconds = used_before + actual_duration,
                       !.current_break_start = None,
                       !.status = IN_PROGRESS,
                       !.break_history = CloseLastBreak(@, now, actual_duration)]
         IN /\ Store(i, row)
            /\ resp' = Resp(200)
            /\ UNCHANGED now

\* --------------------------------------------------------- ANTI_CHEAT_CONFIG
\* doubled: warning_threshold 3, disqualification_threshold 5
warning_threshold2 == 2 * 3
disqualification_threshold2 == 2 * 5

EventTypes ==
    {"tab_switch", "paste_attempt", "code_copy", "code_paste",
     "copy_attempt", "right_click", "dev_tools_open", "focus_loss"}

\* violation_weights, doubled: 1, 2, 1, 0.5, 3, 0.5
ViolationWeight2(counter) ==
    CASE counter = "tab_switch_count" -> 2
      [] counter = "paste_attempt_count" -> 4
      [] counter = "copy_attempt_count" -> 2
      [] counter = "right_click_count" -> 1
      [] counter = "dev_tools_open_count" -> 6
      [] counter = "focus_loss_count" -> 1

Counters ==
    {"tab_switch_count", "paste_attempt_count", "copy_attempt_count",
     "right_click_count", "dev_tools_open_count", "focus_loss_count"}

\* the if/elif chain on event.event_type: the counter an event increments
CounterOf(event_type) ==
    CASE event_type = "tab_switch" -> "tab_switch_count"
      [] event_type \in {"paste_attempt", "code_paste"} -> "paste_attempt_count"
      [] event_type \in {"copy_attempt", "code_copy"} -> "copy_attempt_count"
      [] event_type = "right_click" -> "right_click_count"
      [] event_type = "dev_tools_open" -> "dev_tools_open_count"
      [] event_type = "focus_loss" -> "focus_loss_count"

ViolationScore2SignSlip(test) ==
    test.tab_switch_count * ViolationWeight2("tab_switch_count")
    + test.paste_attempt_count * ViolationWeight2("paste_attempt_count")
    + test.copy_attempt_count * ViolationWeight2("copy_attempt_count")
    - test.right_click_count * ViolationWeight2("right_click_count")
    + test.dev_tools_open_count * ViolationWeight2("dev_tools_open_count")
    + test.focus_loss_count * ViolationWeight2("focus_loss_count")

\* the weighted violation score of the row's counters, doubled
ViolationScore2(test) ==
    test.tab_switch_count * ViolationWeight2("tab_switch_count")
    + test.paste_attempt_count * ViolationWeight2("paste_attempt_count")
    + test.copy_attempt_count * ViolationWeight2("copy_attempt_count")
    + test.right_click_count * ViolationWeight2("right_click_count")
    + test.dev_tools_open_count * ViolationWeight2("dev_tools_open_count")
    + test.focus_loss_count * ViolationWeight2("focus_loss_count")

ShouldDisqualifyStrict(score2) == score2 > disqualification_threshold2

\* violation_score >= disqualification_threshold
ShouldDisqualify(score2) == score2 >= disqualification_threshold2

\* violation_score >= warning_threshold * (warning_count + 1) / warning_threshold
ShouldWarn(score2, warning_count) ==
    score2 * warning_threshold2 >= warning_threshold2 * (warning_count + 1) * 2

log_anti_cheat_event_suspend(i, event_type, timestamp) ==
    LET test == tests[i] IN
    IF test.status \notin {IN_PROGRESS, ON_BREAK}
    THEN /\ resp' = Resp(400)
         /\ UNCHANGED <<tests, now>>
    ELSE IF test.is_disqualified
    THEN /\ resp' = [Resp(200) EXCEPT !.success = FALSE,
                                                    !.is_disqualified = TRUE]
         /\ UNCHANGED <<tests, now>>
    ELSE LET counter == CounterOf(event_type)
             logged == [test EXCEPT
                 !.violation_events =
                     Append(@, [type |-> event_type, timestamp |-> timestamp])]
             stamped == IF event_type = "tab_switch"
                        THEN [logged EXCEPT
                                !.tab_switch_timestamps = Append(@, timestamp)]
                        ELSE logged
             counted == [stamped EXCEPT ![counter] = @ + 1]
             violation_score2 == ViolationScore2(counted)
             row == IF ShouldDisqualify(violation_score2)
                    THEN [counted EXCEPT
                            !.is_disqualified = TRUE,
                            !.status = EXPIRED,
                            !.disqualified_at = now,
                            !.disqualification_reason = violation_score2]
                    ELSE IF ShouldWarn(violation_score2, counted.warning_count)
                    THEN [counted EXCEPT !.warning_count = @ + 1]
                    ELSE counted
         IN /\ Store(i, row)
            /\ resp' = [Resp(200) EXCEPT
                          !.violation_score2 = violation_score2,
                          !.is_disqualified = row.is_disqualified]
            /\ UNCHANGED now

\* ----------------------------------------------------- log_anti_cheat_event
\* event.timestamp is the client's; the server clock is read only for
\* disqualified_at.
log_anti_cheat_event(i, event_type, timestamp) ==
    LET test == tests[i] IN
    IF test.status \notin {IN_PROGRESS, ON_BREAK}
    THEN /\ resp' = Resp(400)
         /\ UNCHANGED <<tests, now>>
    ELSE IF test.is_disqualified
    THEN /\ resp' = [Resp(200) EXCEPT !.success = FALSE,
                                                    !.is_disqualified = TRUE]
         /\ UNCHANGED <<tests, now>>
    ELSE LET counter == CounterOf(event_type)
             logged == [test EXCEPT
                 !.violation_events =
                     Append(@, [type |-> event_type, timestamp |-> timestamp])]
             stamped == IF event_type = "tab_switch"
                        THEN [logged EXCEPT
                                !.tab_switch_timestamps = Append(@, timestamp)]
                        ELSE logged
             counted == [stamped EXCEPT ![counter] = @ + 1]
             violation_score2 == ViolationScore2(counted)
             row == IF ShouldDisqualify(violation_score2)
                    THEN [counted EXCEPT
                            !.is_disqualified = TRUE,
                            !.disqualified_at = now,
                            !.disqualification_reason = violation_score2]
                    ELSE IF ShouldWarn(violation_score2, counted.warning_count)
                    THEN [counted EXCEPT !.warning_count = @ + 1]
                    ELSE counted
         IN /\ Store(i, row)
            /\ resp' = [Resp(200) EXCEPT
                          !.violation_score2 = violation_score2,
                          !.is_disqualified = row.is_disqualified]
            /\ UNCHANGED now

\* ------------------------------------------------------- reset_tab_switches
reset_tab_switches_wipes_log(i) ==
    LET test == tests[i] IN
    IF test.status # IN_PROGRESS
    THEN /\ resp' = Resp(400)
         /\ UNCHANGED <<tests, now>>
    ELSE LET previous_count == test.tab_switch_count
         IN /\ Store(i, [test EXCEPT
                           !.tab_switch_count = 0,
                           !.tab_switch_timestamps = <<>>,
                           !.violation_events = <<>>,
                           !.warning_count = Max(0, @ - previous_count)])
            /\ resp' = Resp(200)
            /\ UNCHANGED now

reset_tab_switches(i) ==
    LET test == tests[i] IN
    IF test.status # IN_PROGRESS
    THEN /\ resp' = Resp(400)
         /\ UNCHANGED <<tests, now>>
    ELSE LET previous_count == test.tab_switch_count
         IN /\ Store(i, [test EXCEPT
                           !.tab_switch_count = 0,
                           !.tab_switch_timestamps = <<>>,
                           !.warning_count = Max(0, @ - previous_count)])
            /\ resp' = Resp(200)
            /\ UNCHANGED now

\* ----------------------------------------------------- reset_paste_attempts
reset_paste_attempts(i) ==
    LET test == tests[i] IN
    IF test.status # IN_PROGRESS
    THEN /\ resp' = Resp(400)
         /\ UNCHANGED <<tests, now>>
    ELSE LET previous_count == test.paste_attempt_count
         IN /\ Store(i, [test EXCEPT
                           !.paste_attempt_count = 0,
                           !.warning_count = Max(0, @ - previous_count)])
            /\ resp' = Resp(200)
            /\ UNCHANGED now

\* ---------------------------------------------- reinstate_disqualified_test
reinstate_keeps_status(i) ==
    LET test == tests[i] IN
    IF ~test.is_disqualified
    THEN /\ resp' = Resp(400)
         /\ UNCHANGED <<tests, now>>
    ELSE /\ Store(i, [test EXCEPT
                        !.is_disqualified = FALSE,
                        !.disqualification_reason = None,
                        !.disqualified_at = None,
                        !.tab_switch_count = 0,
                        !.paste_attempt_count = 0,
                        !.copy_attempt_count = 0,
                        !.right_click_count = 0,
                        !.dev_tools_open_count = 0,
                        !.focus_loss_count = 0,
                        !.warning_count = 0,
                        !.violation_events = <<>>,
                        !.tab_switch_timestamps = <<>>])
         /\ resp' = [Resp(200) EXCEPT !.status = IN_PROGRESS]
         /\ UNCHANGED now

reinstate_disqualified_test(i) ==
    LET test == tests[i] IN
    IF ~test.is_disqualified
    THEN /\ resp' = Resp(400)
         /\ UNCHANGED <<tests, now>>
    ELSE /\ Store(i, [test EXCEPT
                        !.status = IN_PROGRESS,
                        !.is_disqualified = FALSE,
                        !.disqualification_reason = None,
                        !.disqualified_at = None,
                        !.tab_switch_count = 0,
                        !.paste_attempt_count = 0,
                        !.copy_attempt_count = 0,
                        !.right_click_count = 0,
                        !.dev_tools_open_count = 0,
                        !.focus_loss_count = 0,
                        !.warning_count = 0,
                        !.violation_events = <<>>,
                        !.tab_switch_timestamps = <<>>])
         /\ resp' = [Resp(200) EXCEPT !.status = IN_PROGRESS]
         /\ UNCHANGED now

\* ------------------------------------------------------ mark_test_completed
mark_test_completed_pardons(i) ==
    LET test == tests[i] IN
    IF test.status = COMPLETED
    THEN /\ resp' = [Resp(200) EXCEPT !.status = COMPLETED]
         /\ UNCHANGED <<tests, now>>
    ELSE /\ Store(i, [test EXCEPT
                        !.status = COMPLETED,
                        !.is_disqualified = FALSE,
                        !.end_time = IF @ # None THEN @ ELSE now])
         /\ resp' = [Resp(200) EXCEPT !.status = COMPLETED]
         /\ UNCHANGED now

mark_test_completed(i) ==
    LET test == tests[i] IN
    IF test.status = COMPLETED
    THEN /\ resp' = [Resp(200) EXCEPT !.status = COMPLETED]
         /\ UNCHANGED <<tests, now>>
    ELSE /\ Store(i, [test EXCEPT
                        !.status = COMPLETED,
                        !.end_time = IF @ # None THEN @ ELSE now])
         /\ resp' = [Resp(200) EXCEPT !.status = COMPLETED]
         /\ UNCHANGED now

\* the clock
Tick(d) ==
    /\ now + d <= MaxTime
    /\ now' = now + d
    /\ UNCHANGED <<tests, resp, obs>>

\* an anti-cheat request that has not arrived
NoRequest ==
    [ pc |-> "idle", test_id |-> None, event_type |-> "none",
      timestamp |-> "none", read |-> <<>>, code |-> None, success |-> FALSE ]

\* the clock of the break-ledger specification
BreakTick(d) ==
    /\ now + d <= MaxBreakClock
    /\ now' = now + d
    /\ UNCHANGED <<tests, resp, obs>>

InitGen ==
    /\ locks = {}
    /\ mutex = NoCall
    /\ pc = [c \in Calls |-> "idle"]
    /\ cand = [c \in Calls |-> None]
    /\ outcome = [c \in Calls |-> None]

\* One session, as a committed create_test left it
Init ==
    /\ \E d \in Durations : tests = <<NewTest(7, d)>>
    /\ now = 0
    /\ resp = Resp(200)
    /\ obs = [last |-> None, reset |-> FALSE]
    /\ inflight = [r \in Requests |-> NoRequest]
    /\ InitGen

\* Candidate-facing handlers (by access token)
StartSession == \E i \in DOMAIN tests : start_test(i)
CompleteSession == \E i \in DOMAIN tests : complete_test(i)
GetSession == \E i \in DOMAIN tests : get_test_by_token(i)
StartBreak ==
    \E i \in DOMAIN tests : tests[i].break_count < MaxBreaks /\ start_break(i)
EndBreak == \E i \in DOMAIN tests : end_break(i)
RecordViolation(types, stamps, maxLog) ==
    \E i \in DOMAIN tests, e \in types, ts \in stamps :
        /\ Len(tests[i].violation_events) < maxLog
        /\ log_anti_cheat_event(i, e, ts)

\* Administrative handlers (by test id)
ResetTabSwitches == \E i \in DOMAIN tests : reset_tab_switches(i)
ResetPasteAttempts == \E i \in DOMAIN tests : reset_paste_attempts(i)
Reinstate == \E i \in DOMAIN tests : reinstate_disqualified_test(i)
MarkCompleted == \E i \in DOMAIN tests : mark_test_completed(i)

\* Every handler reads the clock only as a difference from a time stored at
\* or after start_test, so the clock is left at 0 until a session has started.
ClockRuns == \E i \in DOMAIN tests : tests[i].status # PENDING

\* -------------------------------------------------------------- create_test
\* A call arrives with test_data.candidate_id
Request(c, candidate_id) ==
    /\ pc[c] = "idle"
    /\ pc' = [pc EXCEPT ![c] = "enter"]
    /\ cand' = [cand EXCEPT ![c] = candidate_id]
    /\ UNCHANGED <<locks, mutex, outcome, sessionVars>>

\* `async with _lock:` is entered when no other call is inside it
LockEnter(c) ==
    /\ pc[c] = "enter"
    /\ mutex = NoCall
    /\ mutex' = c
    /\ pc' = [pc EXCEPT ![c] = "check"]
    /\ UNCHANGED <<locks, cand, outcome, sessionVars>>

HeldNever(candidate_id) == FALSE

\* candidate_id in _test_generation_locks
Held(candidate_id) == candidate_id \in locks

\* The body of the first `async with _lock:`: raise 409 (outside the try, so
\* the finally does not run) or add the candidate; leaving the block frees
\* _lock either way.
TryAcquire(c) ==
    /\ pc[c] = "check"
    /\ mutex = c
    /\ mutex' = NoCall
    /\ IF Held(cand[c])
       THEN /\ outcome' = [outcome EXCEPT ![c] = 409]
            /\ pc' = [pc EXCEPT ![c] = "done"]
            /\ UNCHANGED locks
       ELSE /\ locks' = locks \cup {cand[c]}
            /\ pc' = [pc EXCEPT ![c] = "try"]
            /\ UNCHANGED outcome
    /\ UNCHANGED <<cand, sessionVars>>

RaiseNoFinally(c, code) ==
    /\ outcome' = [outcome EXCEPT ![c] = code]
    /\ pc' = [pc EXCEPT ![c] = "done"]

\* An exception inside the try block: control goes to the finally clause
Raise(c, code) ==
    /\ outcome' = [outcome EXCEPT ![c] = code]
    /\ pc' = [pc EXCEPT ![c] = "finally"]

\* select(Candidate): 404 when there is no such candidate; otherwise the Test
\* is added and flushed (not yet committed)
GetCandidate(c) ==
    /\ pc[c] = "try"
    /\ IF cand[c] \notin Existing
       THEN Raise(c, 404)
       ELSE /\ pc' = [pc EXCEPT ![c] = "generate"]
            /\ UNCHANGED outcome
    /\ UNCHANGED <<locks, mutex, cand, sessionVars>>

\* await ai_service.generate_test_questions(...): returns, or raises
Generate(c) ==
    /\ pc[c] = "generate"
    /\ \/ /\ pc' = [pc EXCEPT ![c] = "persist"]
          /\ UNCHANGED outcome
       \/ Raise(c, 500)
    /\ UNCHANGED <<locks, mutex, cand, sessionVars>>

\* questions and answers are added; db.commit() stores the Test, or raises
\* and nothing is stored
Persist(c) ==
    /\ pc[c] = "persist"
    /\ \/ /\ \E d \in Durations : tests' = Append(tests, NewTest(cand[c], d))
          /\ outcome' = [outcome EXCEPT ![c] = 200]
          /\ pc' = [pc EXCEPT ![c] = "finally"]
       \/ Raise(c, 500) /\ UNCHANGED tests
    /\ UNCHANGED <<locks, mutex, cand, now, resp, obs, inflight>>

\* finally: `async with _lock:` is entered
ReleaseEnter(c) ==
    /\ pc[c] = "finally"
    /\ mutex = NoCall
    /\ mutex' = c
    /\ pc' = [pc EXCEPT ![c] = "release"]
    /\ UNCHANGED <<locks, cand, outcome, sessionVars>>

\* _test_generation_locks.discard(candidate_id)
Release(c) ==
    /\ pc[c] = "release"
    /\ mutex = c
    /\ locks' = locks \ {cand[c]}
    /\ mutex' = NoCall
    /\ pc' = [pc EXCEPT ![c] = "done"]
    /\ UNCHANGED <<cand, outcome, sessionVars>>

\* ---------------------------------------- the generation lock (SpecCreate)
\* NCalls concurrent create_test calls on an empty tests table.
InitCreate ==
    /\ tests = <<>>
    /\ now = 0
    /\ resp = Resp(200)
    /\ obs = [last |-> None, reset |-> FALSE]
    /\ inflight = [r \in Requests |-> NoRequest]
    /\ InitGen

NextCreate ==
    \E c \in Calls :
        \/ \E candidate_id \in Candidates : Request(c, candidate_id)
        \/ LockEnter(c)
        \/ TryAcquire(c)
        \/ GetCandidate(c)
        \/ Generate(c)
        \/ Persist(c)
        \/ ReleaseEnter(c)
        \/ Release(c)

SpecCreate == InitCreate /\ [][NextCreate]_vars

\* ------------------------------------------- the session lifecycle (Spec)
\* All handlers on one session, with the clock; the violation events are
\* drawn from LifecycleEvents.
LifecycleEvents == {"dev_tools_open"}

Next ==
    \/ StartSession /\ UNCHANGED <<obs, inflight, genVars>>
    \/ CompleteSession /\ UNCHANGED <<obs, inflight, genVars>>
    \/ GetSession /\ UNCHANGED <<obs, inflight, genVars>>
    \/ StartBreak /\ UNCHANGED <<obs, inflight, genVars>>
    \/ EndBreak /\ UNCHANGED <<obs, inflight, genVars>>
    \/ /\ RecordViolation(LifecycleEvents, ClientStamps, MaxEvents)
       /\ UNCHANGED <<obs, inflight, genVars>>
    \/ Reinstate /\ UNCHANGED <<obs, inflight, genVars>>
    \/ MarkCompleted /\ UNCHANGED <<obs, inflight, genVars>>
    \/ \E d \in TickSteps : ClockRuns /\ Tick(d) /\ UNCHANGED <<inflight, genVars>>

Spec == Init /\ [][Next]_vars

\* ------------------------------------- the integrity monitor (SpecScore)
\* Every event type and client timestamp, the counter resets and reinstate,
\* on a started session; the clock stands still.
\* obs is what a client that watches the anti-cheat responses has seen: last
\* is the violation_score2 of the latest accepted log_anti_cheat_event since
\* the latest reinstate (None if there is none), reset tells whether a
\* counter reset succeeded since that event.
ObserveViolation ==
    obs' = IF resp'.violation_score2 # None
           THEN [last |-> resp'.violation_score2, reset |-> FALSE]
           ELSE obs

ObserveReset ==
    obs' = IF resp'.code = 200 THEN [obs EXCEPT !.reset = TRUE] ELSE obs

ObserveReinstate ==
    obs' = IF resp'.code = 200 THEN [last |-> None, reset |-> FALSE] ELSE obs

NextScore ==
    \/ StartSession /\ UNCHANGED <<obs, inflight, genVars>>
    \/ /\ RecordViolation(EventTypes, ClientStamps, MaxEventsScore)
       /\ ObserveViolation
       /\ UNCHANGED <<inflight, genVars>>
    \/ ResetTabSwitches /\ ObserveReset /\ UNCHANGED <<inflight, genVars>>
    \/ ResetPasteAttempts /\ ObserveReset /\ UNCHANGED <<inflight, genVars>>
    \/ Reinstate /\ ObserveReinstate /\ UNCHANGED <<inflight, genVars>>

SpecScore == Init /\ [][NextScore]_vars

\* ------------------------- concurrent log_anti_cheat_event (SpecRace)
\* Each request runs in its own AsyncSession: it reads the row with a plain
\* select (no FOR UPDATE, no version column), works on its copy, and
\* db.commit() flushes an UPDATE of the columns it changed.  Requests
\* interleave at the awaits, that is between the read and the commit.

\* the row the handler computes from the row it read
RecordedRow(test, event_type, timestamp) ==
    LET counter == CounterOf(event_type)
        logged == [test EXCEPT
            !.violation_events =
                Append(@, [type |-> event_type, timestamp |-> timestamp])]
        stamped == IF event_type = "tab_switch"
                   THEN [logged EXCEPT
                           !.tab_switch_timestamps = Append(@, timestamp)]
                   ELSE logged
        counted == [stamped EXCEPT ![counter] = @ + 1]
        violation_score2 == ViolationScore2(counted)
    IN IF ShouldDisqualify(violation_score2)
       THEN [counted EXCEPT
               !.is_disqualified = TRUE,
               !.disqualified_at = now,
               !.disqualification_reason = violation_score2]
       ELSE IF ShouldWarn(violation_score2, counted.warning_count)
       THEN [counted EXCEPT !.warning_count = @ + 1]
       ELSE counted

\* await db.execute(select(Test)...), then the checks on the row read: 400,
\* the blocked response, or on to the commit with the row in hand
ReadViolation(r, i, event_type, timestamp) ==
    /\ inflight[r].pc = "idle"
    /\ LET test == tests[i]
           request == [NoRequest EXCEPT !.test_id = i,
                                        !.event_type = event_type,
                                        !.timestamp = timestamp]
       IN inflight' = [inflight EXCEPT ![r] =
              IF test.status \notin {IN_PROGRESS, ON_BREAK}
              THEN [request EXCEPT !.pc = "done", !.code = 400]
              ELSE IF test.is_disqualified
              THEN [request EXCEPT !.pc = "done", !.code = 200]
              ELSE [request EXCEPT !.pc = "commit", !.read = <<test>>]]
    /\ UNCHANGED <<tests, now, resp, obs>>

\* await db.commit(): the UPDATE sets the columns whose value the request
\* changed on its copy; the other columns keep what the table holds
CommitViolation(r) ==
    /\ inflight[r].pc = "commit"
    /\ LET i == inflight[r].test_id
           read == inflight[r].read[1]
           new == RecordedRow(read, inflight[r].event_type,
                              inflight[r].timestamp)
           row == [f \in DOMAIN read |->
                       IF new[f] # read[f] THEN new[f] ELSE tests[i][f]]
       IN /\ Store(i, row)
          /\ resp' = [Resp(200) EXCEPT
                        !.violation_score2 = ViolationScore2(new),
                        !.is_disqualified = new.is_disqualified]
    /\ inflight' = [inflight EXCEPT ![r] =
           [@ EXCEPT !.pc = "done", !.code = 200, !.success = TRUE]]
    /\ UNCHANGED <<now, obs>>

NextRace ==
    \/ StartSession /\ UNCHANGED <<obs, inflight, genVars>>
    \/ \E r \in Requests, i \in DOMAIN tests,
          e \in EventTypes, ts \in ClientStamps :
           ReadViolation(r, i, e, ts) /\ UNCHANGED genVars
    \/ \E r \in Requests : CommitViolation(r) /\ UNCHANGED genVars

SpecRace == Init /\ [][NextRace]_vars

\* --------------------------------------- the state guards (SpecGuard)
\* Every handler of a session in every status, a used-up break budget and a
\* disqualification included, on a coarse clock; the events are those the
\* resets undo and the one that disqualifies fastest.
NextGuard ==
    \/ StartSession /\ UNCHANGED <<obs, inflight, genVars>>
    \/ CompleteSession /\ UNCHANGED <<obs, inflight, genVars>>
    \/ GetSession /\ UNCHANGED <<obs, inflight, genVars>>
    \/ StartBreak /\ UNCHANGED <<obs, inflight, genVars>>
    \/ EndBreak /\ UNCHANGED <<obs, inflight, genVars>>
    \/ /\ RecordViolation(GuardEvents, ClientStamps, MaxEvents)
       /\ UNCHANGED <<obs, inflight, genVars>>
    \/ ResetTabSwitches /\ UNCHANGED <<obs, inflight, genVars>>
    \/ ResetPasteAttempts /\ UNCHANGED <<obs, inflight, genVars>>
    \/ Reinstate /\ UNCHANGED <<obs, inflight, genVars>>
    \/ MarkCompleted /\ UNCHANGED <<obs, inflight, genVars>>
    \/ \E d \in GuardSteps :
           ClockRuns /\ Tick(d) /\ UNCHANGED <<inflight, genVars>>

SpecGuard == Init /\ [][NextGuard]_vars

\* ----------------------------------------- the break ledger (SpecBreaks)
\* StartBreak/EndBreak pairs on one session, with clock steps shorter than
\* the break budget, so that a break ends before, at or after the moment the
\* budget runs out.
NextBreaks ==
    \/ StartSession /\ UNCHANGED <<obs, inflight, genVars>>
    \/ StartBreak /\ UNCHANGED <<obs, inflight, genVars>>
    \/ EndBreak /\ UNCHANGED <<obs, inflight, genVars>>
    \/ \E d \in BreakSteps :
           ClockRuns /\ BreakTick(d) /\ UNCHANGED <<inflight, genVars>>

SpecBreaks == Init /\ [][NextBreaks]_vars

\* ------------------------------ two runs, two client clocks (SpecStamp)
\* tests[1] and tests[2] are the same session in two runs that differ only in
\* the timestamp field the client sends: both runs take every step together,
\* at the same server time and with the same event type.

\* the row a log_anti_cheat_event call leaves: the row as it was when the
\* call is refused (400, or the blocked response), else the recorded row
AntiCheatRow(test, event_type, timestamp) ==
    IF test.status \notin {IN_PROGRESS, ON_BREAK} \/ test.is_disqualified
    THEN test
    ELSE RecordedRow(test, event_type, timestamp)

InitStamp ==
    /\ \E d \in Durations : tests = <<NewTest(7, d), NewTest(7, d)>>
    /\ now = 0
    /\ resp = Resp(200)
    /\ obs = [last |-> None, reset |-> FALSE]
    /\ inflight = [r \in Requests |-> NoRequest]
    /\ InitGen

\* start_test in both runs
StartBoth ==
    /\ \A i \in DOMAIN tests : tests[i].status = PENDING
    /\ tests' = [i \in DOMAIN tests |->
                    [tests[i] EXCEPT !.status = IN_PROGRESS,
                                     !.start_time = now,
                                     !.current_section = "brain_teaser"]]
    /\ resp' = [Resp(200) EXCEPT !.status = IN_PROGRESS,
                                 !.snapshot = <<tests'[1]>>]
    /\ UNCHANGED now

\* log_anti_cheat_event in both runs: the same event type, each run with its
\* own client timestamp; resp is the first run's response
RecordBoth(event_type, stamps) ==
    /\ Len(tests[1].violation_events) < MaxEvents
    /\ tests' = [i \in DOMAIN tests |->
                    AntiCheatRow(tests[i], event_type, stamps[i])]
    /\ resp' = IF tests[1].status \notin {IN_PROGRESS, ON_BREAK}
               THEN Resp(400)
               ELSE IF tests[1].is_disqualified
               THEN [Resp(200) EXCEPT !.success = FALSE,
                                      !.is_disqualified = TRUE]
               ELSE [Resp(200) EXCEPT
                       !.violation_score2 = ViolationScore2(tests'[1]),
                       !.is_disqualified = tests'[1].is_disqualified]
    /\ UNCHANGED now

NextStamp ==
    \/ StartBoth /\ UNCHANGED <<obs, inflight, genVars>>
    \/ \E e \in EventTypes, s1 \in SpoofStamps, s2 \in SpoofStamps :
           RecordBoth(e, <<s1, s2>>) /\ UNCHANGED <<obs, inflight, genVars>>
    \/ \E d \in GuardSteps :
           ClockRuns /\ Tick(d) /\ UNCHANGED <<inflight, genVars>>

SpecStamp == InitStamp /\ [][NextStamp]_vars

\* --------------------------------------- the break budget (SpecBudget)
\* create_test builds the Test of a candidate whose test_duration_hours is
\* any of Hours: calculate_break_time is applied to every duration, and two
\* sessions side by side compare two durations.
BuildTest(duration_hours) ==
    /\ Len(tests) < MaxPlans
    /\ tests' = Append(tests, NewTest(7, duration_hours))
    /\ UNCHANGED <<now, resp, obs, inflight, genVars>>

NextBudget == \E d \in Hours : BuildTest(d)

SpecBudget == InitCreate /\ [][NextBudget]_vars

\* ------------------------------ every path that creates a Test (SpecPaths)
\* Besides create_test, a Test is created by the competition screening
\* endpoint and by the conversion of an application into a candidate.  Both
\* call ai_service.generate_test_questions; neither module imports
\* _test_generation_locks or _lock.

\* get_screening_test finds a registration without a test and calls
\* _create_screening_test: the Test is added and flushed, then the questions
\* are generated
ScreeningRequest(c, candidate_id) ==
    /\ pc[c] = "idle"
    /\ candidate_id \in Existing
    /\ pc' = [pc EXCEPT ![c] = "screening_generate"]
    /\ cand' = [cand EXCEPT ![c] = candidate_id]
    /\ UNCHANGED <<locks, mutex, outcome, sessionVars>>

\* await ai_service.generate_test_questions(...): returns, or raises (there
\* is no try block: the request fails and nothing is stored)
ScreeningGenerate(c) ==
    /\ pc[c] = "screening_generate"
    /\ \/ /\ pc' = [pc EXCEPT ![c] = "screening_persist"]
          /\ UNCHANGED outcome
       \/ RaiseNoFinally(c, 500)
    /\ UNCHANGED <<locks, mutex, cand, sessionVars>>

\* questions, answers and metrics are added; db.commit() stores the Test with
\* its fixed break budget total_break = 5 * 60
ScreeningPersist(c) ==
    /\ pc[c] = "screening_persist"
    /\ \/ /\ \E d \in Durations :
                tests' = Append(tests,
                    [NewTest(cand[c], d) EXCEPT
                        !.total_break_time_seconds = 5 * 60])
          /\ outcome' = [outcome EXCEPT ![c] = 200]
          /\ pc' = [pc EXCEPT ![c] = "done"]
       \/ RaiseNoFinally(c, 500) /\ UNCHANGED tests
    /\ UNCHANGED <<locks, mutex, cand, now, resp, obs, inflight>>

\* create_candidate_from_application, phase 1: the application is read; no
\* candidate row exists yet for it
ApplicationRequest(c) ==
    /\ pc[c] = "idle"
    /\ pc' = [pc EXCEPT ![c] = "application_generate"]
    /\ UNCHANGED <<locks, mutex, cand, outcome, sessionVars>>

\* phase 2: await ai_service.generate_test_questions(...) inside
\* try/except: an exception is printed and questions_data stays {}
ApplicationGenerate(c) ==
    /\ pc[c] = "application_generate"
    /\ pc' = [pc EXCEPT ![c] = "application_persist"]
    /\ UNCHANGED <<locks, mutex, cand, outcome, sessionVars>>

\* phase 3: 400 when the candidate was created meanwhile; otherwise the
\* Candidate and its Test (break budget by the same ladder as
\* calculate_break_time) are added and committed
ApplicationPersist(c) ==
    /\ pc[c] = "application_persist"
    /\ \E candidate_id \in Candidates \ Existing :
          IF \E i \in DOMAIN tests : tests[i].candidate_id = candidate_id
          THEN /\ RaiseNoFinally(c, 400)
               /\ UNCHANGED <<tests, cand>>
          ELSE /\ \E d \in Durations :
                     tests' = Append(tests, NewTest(candidate_id, d))
               /\ cand' = [cand EXCEPT ![c] = candidate_id]
               /\ outcome' = [outcome EXCEPT ![c] = 200]
               /\ pc' = [pc EXCEPT ![c] = "done"]
    /\ UNCHANGED <<locks, mutex, now, resp, obs, inflight>>

NextPaths ==
    \E c \in Calls :
        \/ \E candidate_id \in Candidates : Request(c, candidate_id)
        \/ LockEnter(c)
        \/ TryAcquire(c)
        \/ GetCandidate(c)
        \/ Generate(c)
        \/ Persist(c)
        \/ ReleaseEnter(c)
        \/ Release(c)
        \/ \E candidate_id \in Candidates : ScreeningRequest(c, candidate_id)
        \/ ScreeningGenerate(c)
        \/ ScreeningPersist(c)
        \/ ApplicationRequest(c)
        \/ ApplicationGenerate(c)
        \/ ApplicationPersist(c)

SpecPaths == InitCreate /\ [][NextPaths]_vars

\* ======================================================================
\* Claims
\* ======================================================================

\* a call between lock acquisition and lock release
InGeneration(c) == pc[c] \in {"try", "generate", "persist", "finally", "release"}

\* C1: the generation lock is single-flight per candidate: no two create_test
\* calls for the same candidate are between lock acquisition and release at
\* the same time, a call rejected with 409 never enters that phase, and the
\* stored tests are exactly those of the calls that returned 200 (a rejected
\* call creates none).
C1_SingleFlight ==
    /\ \A c1, c2 \in Calls :
           (c1 # c2 /\ InGeneration(c1) /\ InGeneration(c2)) => cand[c1] # cand[c2]
    /\ \A c \in Calls : outcome[c] = 409 => pc[c] = "done"
    /\ Len(tests) = Cardinality({c \in Calls : outcome[c] = 200})

\* Two calls for one candidate overlap: one is generating, the other got 409.
C1_Witness ==
    \E c1, c2 \in Calls :
        /\ c1 # c2
        /\ cand[c1] = cand[c2]
        /\ pc[c1] = "generate"
        /\ outcome[c2] = 409

\* C2: used_break_seconds <= allowed_break_seconds in every reachable state.
C2_UsedWithinAllowed ==
    \A i \in DOMAIN tests :
        tests[i].used_break_time_seconds <= tests[i].total_break_time_seconds

\* a step of a candidate-facing mutation on session i
CandidateMutation(i) ==
    \/ start_test(i)
    \/ start_break(i)
    \/ end_break(i)
    \/ complete_test(i)
    \/ \E e \in EventTypes, ts \in ClientStamps : log_anti_cheat_event(i, e, ts)

\* C3: a candidate-facing mutation on a disqualified session is refused (the
\* blocked-session response, or an error) and leaves the session unchanged.
C3_DisqualifiedBlocksMutation ==
    [][\A i \in DOMAIN tests :
           (tests[i].is_disqualified /\ CandidateMutation(i))
               => /\ tests'[i] = tests[i]
                  /\ resp'.success = FALSE]_vars

\* C4: once Completed or Expired, the status is not changed by any step other
\* than a reinstate.
C4_TerminalStatus ==
    [][\A i \in DOMAIN tests :
           (tests[i].status \in {COMPLETED, EXPIRED}
                /\ ~reinstate_disqualified_test(i))
               => tests'[i].status = tests[i].status]_vars

\* C5: current_break_start is non-null iff status == OnBreak.
C5_BreakStartIffOnBreak ==
    \A i \in DOMAIN tests :
        (tests[i].current_break_start # None) <=> (tests[i].status = ON_BREAK)

\* C6: end_time is non-null iff status is Completed or Expired.
C6_EndTimeIffTerminal ==
    \A i \in DOMAIN tests :
        (tests[i].end_time # None) <=> (tests[i].status \in {COMPLETED, EXPIRED})

\* a step in which log_anti_cheat_event accepted an event on session i
AcceptedViolation(i) ==
    Len(tests'[i].violation_events) = Len(tests[i].violation_events) + 1

\* the claim's weighted score of the current counters, doubled:
\* tab_switch*1 + paste*2 + copy*1 + right_click*0.5 + dev_tools_open*3
\* + focus_loss*0.5
ClaimScore2(test) ==
    2 * test.tab_switch_count + 4 * test.paste_attempt_count
    + 2 * test.copy_attempt_count + test.right_click_count
    + 6 * test.dev_tools_open_count + test.focus_loss_count

\* the claim's counter for an event type (code_paste as paste, code_copy as copy)
ClaimCounter(event_type) ==
    CASE event_type \in {"paste_attempt", "code_paste"} -> "paste_attempt_count"
      [] event_type \in {"copy_attempt", "code_copy"} -> "copy_attempt_count"
      [] OTHER -> event_type \o "_count"

\* C7: after an accepted RecordViolation on a session that was not
\* disqualified, the event's counter (code_paste counted as paste, code_copy as
\* copy) has grown by one, no other counter has changed, and is_disqualified
\* is true exactly when the weighted score of the counters is >= 5.
C7_DisqualifiedIffThreshold ==
    [][\A i \in DOMAIN tests :
           AcceptedViolation(i)
               => LET old == tests[i]
                      new == tests'[i]
                      hit == ClaimCounter(Last(new.violation_events).type)
                  IN /\ ~old.is_disqualified
                     /\ \A k \in Counters :
                            new[k] = old[k] + (IF k = hit THEN 1 ELSE 0)
                     /\ new.is_disqualified <=> (ClaimScore2(new) >= 10)
                     /\ resp'.is_disqualified = new.is_disqualified
                     /\ resp'.violation_score2 = ClaimScore2(new)]_vars

\* Two dev_tools_open events (score 6): the session is disqualified.
C7_Witness ==
    \E i \in DOMAIN tests :
        /\ tests[i].is_disqualified
        /\ tests[i].dev_tools_open_count = 2
        /\ Len(tests[i].violation_events) = 2
        /\ resp.violation_score2 = 12

\* C8 as claimed: of two successive accepted RecordViolation calls with no
\* Reinstate between them, the later returns a score >= the earlier one,
\* whatever else (a counter reset included) happened in between.
C8_ScoreNonDecreasing ==
    [][\A i \in DOMAIN tests :
           (AcceptedViolation(i) /\ obs.last # None)
               => resp'.violation_score2 >= obs.last]_vars

\* C8 amended: of two successive accepted RecordViolation calls with neither
\* a Reinstate nor a successful counter reset between them, the later returns
\* a score >= the earlier one.
C8_ScoreNonDecreasingWithoutReset ==
    [][\A i \in DOMAIN tests :
           (AcceptedViolation(i) /\ obs.last # None /\ ~obs.reset)
               => resp'.violation_score2 >= obs.last]_vars

\* A second accepted event directly after a first one.
C8_Witness ==
    \E i \in DOMAIN tests :
        /\ Len(tests[i].violation_events) >= 2
        /\ ~obs.reset
        /\ obs.last # None
        /\ obs.last = resp.violation_score2
        /\ obs.last > 2

\* C9: the lock set holds exactly the candidates of the calls between
\* acquisition and release, so a call that has finished, by any outcome, has
\* left no entry behind; the release step removes the caller's candidate; a
\* call rejected with 409 leaves the lock set as it was.
C9_LockReleased ==
    /\ [](\A k \in locks : \E c \in Calls : InGeneration(c) /\ cand[c] = k)
    /\ [][\A c \in Calls :
             /\ (pc[c] = "release" /\ pc'[c] = "done") => cand[c] \notin locks'
             /\ (outcome[c] = None /\ outcome'[c] = 409) => locks' = locks]_vars

\* A call failed during generation and has finished; a later call for the
\* same candidate has acquired the lock.
C9_Witness ==
    \E c1, c2 \in Calls :
        /\ c1 # c2
        /\ cand[c1] = cand[c2]
        /\ outcome[c1] = 500
        /\ pc[c1] = "done"
        /\ pc[c2] = "generate"

\* C10: get_test_by_token on an InProgress session whose effective deadline
\* start_time + duration_hours*3600 + used_break_seconds has passed returns
\* status Expired with remaining seconds 0, and stores status Expired.
C10_ExpiredReadsZero ==
    [][\A i \in DOMAIN tests :
           (/\ tests[i].status = IN_PROGRESS
            /\ tests[i].start_time # None
            /\ now > tests[i].start_time + tests[i].duration_hours * 3600
                         + tests[i].used_break_time_seconds
            /\ get_test_by_token(i))
               => /\ tests'[i].status = EXPIRED
                  /\ resp'.status = EXPIRED
                  /\ resp'.time_remaining_seconds = 0]_vars

\* C11 as claimed: GetSession never changes the status of a session that is
\* OnBreak, and the session stays OnBreak until EndBreak or CompleteSession:
\* no other step takes it out of OnBreak.
C11_OnBreakUntilEndOrComplete ==
    [][\A i \in DOMAIN tests :
           tests[i].status = ON_BREAK
               => /\ get_test_by_token(i) => tests'[i].status = ON_BREAK
                  /\ tests'[i].status # ON_BREAK
                         => (end_break(i) \/ complete_test(i))]_vars

\* C11 amended: GetSession never changes the status (or any field) of a
\* session that is OnBreak, however far past the effective deadline the clock
\* is, and neither does the passing of time; the session stays OnBreak until
\* EndBreak, CompleteSession, or an administrative MarkCompleted or Reinstate.
C11_OnBreakKeptByRead ==
    [][\A i \in DOMAIN tests :
           tests[i].status = ON_BREAK
               => /\ get_test_by_token(i)
                         => /\ tests'[i] = tests[i]
                            /\ resp'.status = ON_BREAK
                  /\ tests'[i].status # ON_BREAK
                         => \/ end_break(i)
                            \/ complete_test(i)
                            \/ mark_test_completed(i)
                            \/ reinstate_disqualified_test(i)]_vars

\* A session on break was read after its effective deadline and is still on
\* break.
C11_Witness ==
    \E i \in DOMAIN tests :
        /\ tests[i].status = ON_BREAK
        /\ now > EffectiveEnd(tests[i])
        /\ resp.status = ON_BREAK
        /\ resp.snapshot = <<tests[i]>>
        /\ resp.time_remaining_seconds = 0

\* C12: CompleteSession is idempotent: on a session that is already
\* Completed it raises no error, changes no field of the session and returns
\* the stored snapshot; the call that completes a session returns the
\* snapshot it stored, so two successive calls return the same snapshot.
C12_CompleteIdempotent ==
    [][\A i \in DOMAIN tests :
           complete_test(i)
               => /\ resp'.code = 200
                  /\ resp'.snapshot = <<tests'[i]>>
                  /\ tests'[i].status = COMPLETED
                  /\ tests[i].status = COMPLETED => tests'[i] = tests[i]]_vars

\* A Completed session that took a break, some time after its completion,
\* with the last response being its stored snapshot.
C12_Witness ==
    \E i \in DOMAIN tests :
        /\ tests[i].status = COMPLETED
        /\ tests[i].used_break_time_seconds > 0
        /\ now > tests[i].end_time
        /\ resp.code = 200
        /\ resp.snapshot = <<tests[i]>>

\* C13: after CompleteSession on a session that is OnBreak, status is
\* Completed, current_break_start is null and no break_history entry has a
\* null end.
C13_CompleteClosesBreak ==
    [][\A i \in DOMAIN tests :
           (tests[i].status = ON_BREAK /\ complete_test(i))
               => /\ tests'[i].status = COMPLETED
                  /\ tests'[i].current_break_start = None
                  /\ \A k \in DOMAIN tests'[i].break_history :
                         tests'[i].break_history[k].end # None]_vars

RECURSIVE SumDurations(_)
\* the sum of duration_seconds over the entries of a break history
SumDurations(history) ==
    IF history = <<>> THEN 0
    ELSE Last(history).duration_seconds
         + SumDurations(SubSeq(history, 1, Len(history) - 1))

\* C14: at every point of a sequence of StartBreak/EndBreak pairs on a
\* started session, the sum of duration_seconds over all break_history
\* entries equals used_break_seconds (an open entry contributes 0).
C14_HistorySumsToUsed ==
    \A i \in DOMAIN tests :
        tests[i].start_time # None
            => SumDurations(tests[i].break_history)
                   = tests[i].used_break_time_seconds

\* A first break of 500 s is closed and a second break is open.
C14_Witness ==
    \E i \in DOMAIN tests :
        /\ tests[i].status = ON_BREAK
        /\ Len(tests[i].break_history) = 2
        /\ tests[i].break_history[1].duration_seconds = 500
        /\ tests[i].break_history[2].end = None
        /\ tests[i].used_break_time_seconds = 500

C16_ReinstateClears ==
    [][\A i \in DOMAIN tests :
           reinstate_disqualified_test(i)
               => IF ~tests[i].is_disqualified
                  THEN /\ resp'.code = 400
                       /\ tests'[i] = tests[i]
                  ELSE LET new == tests'[i]
                       IN /\ resp'.code = 200
                          /\ \A k \in Counters : new[k] = 0
                          /\ new.warning_count = 0
                          /\ new.violation_events = <<>>
                          /\ new.tab_switch_timestamps = <<>>
                          /\ ClaimScore2(new) = 0
                          /\ ~new.is_disqualified
                          /\ new.disqualification_reason = None
                          /\ new.disqualified_at = None
                          /\ new.status = IN_PROGRESS]_vars

\* A session that was disqualified and Completed has been reinstated: it is
\* InProgress with its counters and logs cleared.
C16_Witness ==
    \E i \in DOMAIN tests :
        /\ tests[i].status = IN_PROGRESS
        /\ tests[i].end_time # None
        /\ ~tests[i].is_disqualified
        /\ tests[i].violation_events = <<>>
        /\ resp = [Resp(200) EXCEPT !.status = IN_PROGRESS]

\* the session fields RecordViolation has no business with
LifecycleFields ==
    {"status", "start_time", "end_time", "duration_hours", "current_section",
     "total_break_time_seconds", "used_break_time_seconds", "break_count",
     "current_break_start", "break_history"}

\* C17: RecordViolation never changes the session's status: a call, whether
\* it disqualifies the session or not, leaves status, start_time, end_time
\* and all break fields unchanged, and a disqualifying call sets
\* is_disqualified, disqualified_at and disqualification_reason.
C17_ViolationKeepsStatus ==
    [][\A i \in DOMAIN tests :
           (\E e \in EventTypes, ts \in ClientStamps :
                log_anti_cheat_event(i, e, ts))
               => /\ \A f \in LifecycleFields : tests'[i][f] = tests[i][f]
                  /\ (~tests[i].is_disqualified /\ tests'[i].is_disqualified)
                         => /\ tests'[i].disqualified_at = now
                            /\ tests'[i].disqualification_reason # None
                            /\ resp'.is_disqualified]_vars

\* A session was disqualified while on break and is still on break.
C17_Witness ==
    \E i \in DOMAIN tests :
        /\ tests[i].status = ON_BREAK
        /\ tests[i].is_disqualified
        /\ tests[i].disqualified_at = now
        /\ tests[i].current_break_start # None
        /\ resp.is_disqualified
        /\ resp.violation_score2 = tests[i].disqualification_reason

\* C18: is_disqualified changes from false to true only in a RecordViolation
\* step taken while status is InProgress or OnBreak, and from true to false
\* only in a Reinstate step; RecordViolation on a Pending, Completed or
\* Expired session is rejected and changes nothing.
C18_DisqualifiedTransitions ==
    [][\A i \in DOMAIN tests :
           LET recording == \E e \in EventTypes, ts \in ClientStamps :
                                log_anti_cheat_event(i, e, ts)
           IN /\ (~tests[i].is_disqualified /\ tests'[i].is_disqualified)
                     => /\ recording
                        /\ tests[i].status \in {IN_PROGRESS, ON_BREAK}
              /\ (tests[i].is_disqualified /\ ~tests'[i].is_disqualified)
                     => reinstate_disqualified_test(i)
              /\ (recording /\ tests[i].status \in {PENDING, COMPLETED, EXPIRED})
                     => /\ tests'[i] = tests[i]
                        /\ resp'.code = 400]_vars

\* A session that was reinstated after its completion has been disqualified
\* a second time.
C18_Witness ==
    \E i \in DOMAIN tests :
        /\ tests[i].status = IN_PROGRESS
        /\ tests[i].end_time # None
        /\ tests[i].is_disqualified
        /\ Len(tests[i].violation_events) = 2

\* the requests on session i whose event was accepted
AcceptedRequests(i) ==
    {r \in Requests : inflight[r].test_id = i /\ inflight[r].success}

\* C19: violation counting is race-free: once the concurrent RecordViolation
\* requests on a session have completed, the audit log holds one entry per
\* accepted request and every counter equals the number of accepted requests
\* of its types, in every interleaving of their reads and writes.
C19_NoLostUpdate ==
    \A i \in DOMAIN tests :
        (\A r \in Requests : inflight[r].pc # "commit")
            => /\ Len(tests[i].violation_events)
                      = Cardinality(AcceptedRequests(i))
               /\ \A k \in Counters :
                      tests[i][k] = Cardinality(
                          {r \in AcceptedRequests(i) :
                               ClaimCounter(inflight[r].event_type) = k})

\* C20: an operation that is illegal in the current status returns an error
\* and modifies no field: StartSession when status != Pending, StartBreak
\* when status != InProgress or allowed - used <= 0, EndBreak when status !=
\* OnBreak, RecordViolation when status is neither InProgress nor OnBreak, and
\* a counter reset when status != InProgress.
C20_IllegalRejected ==
    [][\A i \in DOMAIN tests :
           LET test == tests[i]
               rejected == tests'[i] = test /\ resp'.code = 400
           IN /\ (test.status # PENDING /\ start_test(i)) => rejected
              /\ (/\ \/ test.status # IN_PROGRESS
                     \/ test.total_break_time_seconds
                            - test.used_break_time_seconds <= 0
                  /\ start_break(i)) => rejected
              /\ (test.status # ON_BREAK /\ end_break(i)) => rejected
              /\ (/\ test.status \notin {IN_PROGRESS, ON_BREAK}
                  /\ \E e \in EventTypes, ts \in ClientStamps :
                         log_anti_cheat_event(i, e, ts)) => rejected
              /\ (/\ test.status # IN_PROGRESS
                  /\ reset_tab_switches(i) \/ reset_paste_attempts(i))
                     => rejected]_vars

\* An InProgress session with violations on record and its break budget used
\* up has had a request refused.
C20_Witness ==
    \E i \in DOMAIN tests :
        /\ tests[i].status = IN_PROGRESS
        /\ tests[i].used_break_time_seconds = tests[i].total_break_time_seconds
        /\ tests[i].paste_attempt_count > 0
        /\ resp = Resp(400)

\* C21: the session state stored by RecordViolation does not depend on the
\* client-supplied timestamp: two runs with the same sequence of violation
\* types at the same server times, whatever timestamps their clients send,
\* hold identical audit-log entries and identical tab-switch timestamp logs.
C21_ClientStampIgnored ==
    /\ tests[1].violation_events = tests[2].violation_events
    /\ tests[1].tab_switch_timestamps = tests[2].tab_switch_timestamps

\* C22: in every reachable state status != Pending implies start_time is
\* non-null: a session leaves Pending only through StartSession, and neither
\* CompleteSession nor MarkCompleted moves a Pending session to Completed.
C22_StartedOnceNotPending ==
    \A i \in DOMAIN tests :
        tests[i].status # PENDING => tests[i].start_time # None

\* C23: in every reachable state break_count equals the number of entries in
\* break_history; a step that changes either one is a successful StartBreak,
\* which adds one to break_count and appends one open entry.
C23_BreakCountIsHistoryLength ==
    /\ [](\A i \in DOMAIN tests :
              tests[i].break_count = Len(tests[i].break_history))
    /\ [][\A i \in DOMAIN tests :
              (\/ tests'[i].break_count # tests[i].break_count
               \/ Len(tests'[i].break_history) # Len(tests[i].break_history))
                  => /\ start_break(i)
                     /\ resp'.code = 200
                     /\ tests'[i].break_count = tests[i].break_count + 1
                     /\ tests'[i].break_history =
                            Append(tests[i].break_history,
                                   [start |-> now, end |-> None,
                                    duration_seconds |-> 0])]_vars

\* A session that took two breaks, the second still open.
C23_Witness ==
    \E i \in DOMAIN tests :
        /\ tests[i].break_count = 2
        /\ Len(tests[i].break_history) = 2
        /\ tests[i].break_history[1].end # None
        /\ tests[i].break_history[2].end = None
        /\ tests[i].status = ON_BREAK

\* the claim's effective deadline of a session
ClaimDeadline(test) ==
    test.start_time + test.duration_hours * 3600
        + test.used_break_time_seconds

\* C24: for a session that GetSession reports as InProgress or OnBreak,
\* remaining_seconds is max(0, start_time + duration_hours*3600 +
\* used_break_seconds - now); an EndBreak moves the effective deadline later
\* by exactly the seconds it credits, which are never more than the budget
\* that was left, so uncredited overrun time does not extend the deadline.
C24_RemainingFollowsDeadline ==
    [][\A i \in DOMAIN tests :
           /\ (get_test_by_token(i) /\ resp'.status \in {IN_PROGRESS, ON_BREAK})
                  => LET left == ClaimDeadline(tests'[i]) - now
                     IN resp'.time_remaining_seconds
                            = (IF left > 0 THEN left ELSE 0)
           /\ (tests[i].status = ON_BREAK /\ end_break(i))
                  => LET credited == Last(tests'[i].break_history).duration_seconds
                         elapsed == now - tests[i].current_break_start
                         budget == tests[i].total_break_time_seconds
                                       - tests[i].used_break_time_seconds
                     IN /\ ClaimDeadline(tests'[i])
                               = ClaimDeadline(tests[i]) + credited
                        /\ credited <= elapsed
                        /\ credited <= budget]_vars

\* An InProgress session read after start_time + duration_hours*3600: the
\* credited break keeps it alive, and the break itself ran longer than the
\* credit.
C24_Witness ==
    \E i \in DOMAIN tests :
        /\ tests[i].status = IN_PROGRESS
        /\ resp.status = IN_PROGRESS
        /\ resp.snapshot = <<tests[i]>>
        /\ now > tests[i].start_time + tests[i].duration_hours * 3600
        /\ resp.time_remaining_seconds > 0
        /\ resp.time_remaining_seconds = ClaimDeadline(tests[i]) - now
        /\ \E k \in DOMAIN tests[i].break_history :
               LET b == tests[i].break_history[k]
               IN b.end # None /\ b.duration_seconds < b.end - b.start

\* C25: calculate_break_time is non-decreasing in duration_hours in both
\* components, returns (600, 600) below 2h, (900, 900) at 2h, (1800, 900) at
\* 4h and (3600, 1200) from 8h on, and its single-break cap never exceeds the
\* total allowance; the session is built with the total.
C25_BreakBudget ==
    \A i \in DOMAIN tests :
        LET d == tests[i].duration_hours
            budget == calculate_break_time(d)
        IN /\ tests[i].total_break_time_seconds = budget[1]
           /\ d < 2 => budget = <<600, 600>>
           /\ d = 2 => budget = <<900, 900>>
           /\ d = 4 => budget = <<1800, 900>>
           /\ d >= 8 => budget = <<3600, 1200>>
           /\ budget[2] <= budget[1]
           /\ \A j \in DOMAIN tests :
                  tests[j].duration_hours >= d
                      => /\ tests[j].total_break_time_seconds >= budget[1]
                         /\ calculate_break_time(tests[j].duration_hours)[2]
                                >= budget[2]

\* Sessions of 7 and 8 hours side by side: the interpolated budget next to
\* the capped one.
C25_Witness ==
    /\ Len(tests) = 2
    /\ tests[1].duration_hours = 7
    /\ tests[2].duration_hours = 8
    /\ tests[1].total_break_time_seconds = 3150
    /\ tests[2].total_break_time_seconds = 3600

\* the fields of a session other than those in `touched`, unchanged by the step
OnlyTouches(i, touched) ==
    \A f \in (DOMAIN tests[i]) \ touched : tests'[i][f] = tests[i][f]

\* C26: a counter reset on an InProgress session succeeds, sets the chosen
\* counter (tab_switch or paste_attempt) to 0, empties that counter's
\* timestamp log (tab_switch_timestamps; paste attempts have none), sets
\* warning_count to max(0, warning_count - previous value of the counter) and
\* leaves every other field of the session unchanged.
C26_ResetFrame ==
    [][\A i \in DOMAIN tests :
           tests[i].status = IN_PROGRESS
               => LET old == tests[i]
                      new == tests'[i]
                      Floor(n) == IF n > 0 THEN n ELSE 0
                  IN /\ reset_tab_switches(i)
                            => /\ resp'.code = 200
                               /\ new.tab_switch_count = 0
                               /\ new.tab_switch_timestamps = <<>>
                               /\ new.warning_count =
                                      Floor(old.warning_count
                                                - old.tab_switch_count)
                               /\ OnlyTouches(i, {"tab_switch_count",
                                                  "tab_switch_timestamps",
                                                  "warning_count"})
                     /\ reset_paste_attempts(i)
                            => /\ resp'.code = 200
                               /\ new.paste_attempt_count = 0
                               /\ new.warning_count =
                                      Floor(old.warning_count
                                                - old.paste_attempt_count)
                               /\ OnlyTouches(i, {"paste_attempt_count",
                                                  "warning_count"})]_vars

\* The tab switches of a session with two of them and a paste attempt on
\* record have been reset: the paste attempt and the audit log are kept.
C26_Witness ==
    \E i \in DOMAIN tests :
        /\ obs.reset
        /\ resp = Resp(200)
        /\ tests[i].status = IN_PROGRESS
        /\ tests[i].tab_switch_count = 0
        /\ tests[i].tab_switch_timestamps = <<>>
        /\ tests[i].paste_attempt_count = 1
        /\ Len(tests[i].violation_events) = 3
        /\ tests[i].warning_count = 1

\* C27: an accepted RecordViolation increments warning_count only when it
\* does not disqualify the session and the resulting violation_score has
\* reached warning_threshold (3.0); a call whose resulting score is below 3.0,
\* or one that disqualifies, leaves warning_count unchanged.
C27_WarnOnlyFromThreshold ==
    [][\A i \in DOMAIN tests :
           AcceptedViolation(i)
               => LET old == tests[i]
                      new == tests'[i]
                  IN /\ new.warning_count \in
                            {old.warning_count, old.warning_count + 1}
                     /\ new.warning_count # old.warning_count
                            => /\ ~new.is_disqualified
                               /\ ClaimScore2(new) >= warning_threshold2
                     /\ (\/ new.is_disqualified
                         \/ ClaimScore2(new) < warning_threshold2)
                            => new.warning_count = old.warning_count]_vars

\* a call is inside ai_service.generate_test_questions on one of the three
\* paths that create a session
Generating(c) ==
    pc[c] \in {"generate", "screening_generate", "application_generate"}

\* C28: on every path that creates a session (create_test, the competition
\* screening-test creation, candidate creation from an application) the
\* question-generation service runs for a candidate only while that
\* candidate's entry is in the generation lock set.
C28_GenerateOnlyUnderLock ==
    \A c \in Calls : Generating(c) => cand[c] \in locks

\* C29: in every reachable state a disqualified session's current violation
\* counters have a weighted score >= the disqualification threshold 5, also
\* after a counter reset applied to a disqualified session that is InProgress.
C29_DisqualifiedHasScore ==
    \A i \in DOMAIN tests :
        tests[i].is_disqualified
            => ClaimScore2(tests[i]) >= disqualification_threshold2

\* an InProgress session whose effective deadline has passed
PastDeadline(test) ==
    /\ test.status = IN_PROGRESS
    /\ test.start_time # None
    /\ now > EffectiveEnd(test)

\* C30: a session's status becomes Expired only in a get_test_by_token step;
\* the other handlers never compare the clock with the effective deadline: on
\* an InProgress session whose deadline has passed, start_break (with break
\* budget left) is still accepted and puts the session on break, and
\* log_anti_cheat_event is still accepted (it records the event unless the
\* session is disqualified).
C30_ExpiredOnlyByRead ==
    [][\A i \in DOMAIN tests :
           /\ (tests[i].status # EXPIRED /\ tests'[i].status = EXPIRED)
                  => get_test_by_token(i)
           /\ PastDeadline(tests[i])
                  => /\ ( /\ start_break(i)
                          /\ tests[i].used_break_time_seconds
                                 < TotalAllowed(tests[i]) )
                            => /\ resp'.code = 200
                               /\ tests'[i].status = ON_BREAK
                               /\ tests'[i].current_break_start = now
                     /\ \A e \in GuardEvents, ts \in ClientStamps :
                            log_anti_cheat_event(i, e, ts)
                                => /\ resp'.code = 200
                                   /\ tests'[i].status = IN_PROGRESS
                                   /\ ~tests[i].is_disqualified
                                          => AcceptedViolation(i)]_vars

\* A session is on a break that was started after its deadline had passed.
C30_Witness ==
    \E i \in DOMAIN tests :
        /\ tests[i].status = ON_BREAK
        /\ tests[i].start_time # None
        /\ tests[i].current_break_start > EffectiveEnd(tests[i])

====
